---- MODULE Spec2Model ----
(***************************************************************************)
(* Replication control loop of trade-replicator: the poller                *)
(* (polling_service.start_polling), the margin orchestrator                *)
(* (core/orchestrator.MarginOrchestrator) and the child replicator         *)
(* (core/replicator.execute_entry / execute_exit) together with the        *)
(* global STRATEGY_STATE and its file, in DRY_RUN mode (config.DRY_RUN is  *)
(* True).  Money and ratios are exact rationals <<n, d>>; Python floats    *)
(* are not modelled bit for bit.                                           *)
(***************************************************************************)
EXTENDS Integers, Sequences, FiniteSets, TLC

(***************************************************************************)
(* Bounds of the model and the sets the inputs are drawn from.             *)
(***************************************************************************)
MaxOrders == 3
MaxCrashes == 1

Tokens == {"T1", "T2"}
TradedTokens == {"T1"}
\* the margin products of a master order; the polled master trades one of them
Products == {"MIS", "NRML"}
TradedProducts == {"MIS"}
Children == <<"c1", "c2", "c3">>
ChildIds == {Children[i] : i \in 1..Len(Children)}
EquityLevels == {1500, 1995, 2000}
\* the children of db.accounts with their capital and max_capital_usage: c1 is
\* richer than the master, c2 is in debit (its max_capital_usage does not bind),
\* c3 is limited by max_capital_usage
Account(capital, cap) == [capital |-> capital, max_capital_usage |-> cap]
ChildAccounts ==
    [c \in ChildIds |-> IF c = "c1" THEN Account(4000, 0)
                        ELSE IF c = "c2" THEN Account(-500, 1000)
                        ELSE Account(4000, 1000)]
\* no child account registered (a fresh install with the master only)
NoAccounts == [c \in {} |-> Account(0, 0)]
MasterQtys == {65}
\* the master's equity when the model starts: the highest level
StartEquity == CHOOSE e \in EquityLevels : \A x \in EquityLevels : x <= e
PollsPerGrace == 2
\* direct calls of the replicator: fills per call, and the length of db.orders
\* up to which calls are made
MaxFills == 2
MaxLog == 3

(***************************************************************************)
(* Program constants.                                                      *)
(***************************************************************************)
LOT_SIZE == 65
MIN_DELTA == 500
FULL_EXIT_PCT == 99

(***************************************************************************)
(* Exact rational arithmetic on <<numerator, denominator>>, denominator>0. *)
(***************************************************************************)
Abs(x) == IF x < 0 THEN -x ELSE x

RECURSIVE Gcd(_, _)
Gcd(a, b) == IF b = 0 THEN a ELSE Gcd(b, a % b)

Norm(n, d) ==
    LET g == Gcd(Abs(n), d)
    IN  IF n = 0 THEN <<0, 1>> ELSE <<n \div g, d \div g>>

Rat(n) == <<n, 1>>
Lcm(a, b) == (a \div Gcd(a, b)) * b
RDiv(a, b) ==
    IF b[1] > 0 THEN Norm(a[1] * b[2], a[2] * b[1]) ELSE Norm(-(a[1] * b[2]), a[2] * (-b[1]))
RMul(a, b) == Norm(a[1] * b[1], a[2] * b[2])
\* sums go through the least common denominator, which keeps the intermediate
\* integers of repeated partial releases small
RAdd(a, b) ==
    IF a[2] = b[2] THEN Norm(a[1] + b[1], a[2])
    ELSE Norm(a[1] * (Lcm(a[2], b[2]) \div a[2]) + b[1] * (Lcm(a[2], b[2]) \div b[2]), Lcm(a[2], b[2]))
RSub(a, b) == RAdd(a, <<-b[1], b[2]>>)
RLess(a, b) == a[1] * b[2] < b[1] * a[2]
RLeq(a, b) == a[1] * b[2] <= b[1] * a[2]
RMax(a, b) == IF RLess(a, b) THEN b ELSE a
RFloor(a) == a[1] \div a[2]
RZero == <<0, 1>>
ROne == <<1, 1>>


(***************************************************************************)
(* Optional values (Python None) and the strategy state dictionary.        *)
(***************************************************************************)
EmptyRatios == [c \in {} |-> RZero]
NoRatios == [some |-> FALSE, val |-> EmptyRatios]
NoMargin == [some |-> FALSE, val |-> 0]
Some(v) == [some |-> TRUE, val |-> v]

\* load_strategy_state when the file is absent or unreadable
DefaultState ==
    [active |-> FALSE, frozen_ratio |-> NoRatios, master_initial_margin |-> NoMargin]

\* the content of a state file that open(STATE_FILE, "w") truncated and
\* json.dump did not finish: not a JSON document
TornFile == [torn |-> TRUE]

\* load_strategy_state: a file that does not parse gives the default state
load_strategy_state(file) == IF file = TornFile THEN DefaultState ELSE file

\* save_strategy_state: the content of the file after the call.  An I/O error
\* is printed and swallowed: when open() raises the file keeps its content,
\* when json.dump raises (or the process dies in it) the file is left torn
save_strategy_state(file, state, disk_fails) ==
    IF disk_fails = "none" THEN state
    ELSE IF disk_fails = "open" THEN file
    ELSE TornFile

(***************************************************************************)
(* aggregate_orders: one order per key, in order of first occurrence, the  *)
(* quantities of later orders with the same key added to the first.  Each  *)
(* instrument token has one tradingsymbol and exchange, so the key is      *)
(* (instrument_token, transaction_type, product).                          *)
(***************************************************************************)
SameKey(a, b) ==
    /\ a.instrument_token = b.instrument_token
    /\ a.transaction_type = b.transaction_type
    /\ a.product = b.product

RECURSIVE AggInto(_, _)
AggInto(agg, rest) ==
    IF rest = <<>> THEN agg
    ELSE LET o == Head(rest)
             hit == {i \in 1..Len(agg) : SameKey(agg[i], o)}
         IN  IF hit = {}
             THEN AggInto(Append(agg, o), Tail(rest))
             ELSE LET i == CHOOSE j \in hit : TRUE
                  IN  AggInto([agg EXCEPT ![i].quantity = @ + o.quantity], Tail(rest))

\* aggregate_orders with every fill kept as an order of its own
aggregate_ordersSplit(orders) == orders

aggregate_orders(orders) == AggInto(<<>>, orders)

RECURSIVE Flatten(_)
Flatten(ss) == IF ss = <<>> THEN <<>> ELSE Head(ss) \o Flatten(Tail(ss))

(***************************************************************************)
(* execute_entry                                                           *)
(***************************************************************************)
\* ChildBalance with the capital usage limit left out
ChildBalanceUncapped(acc) == acc.capital

\* child_live_balance after the capital usage limit (DRY_RUN: stored capital)
ChildBalance(acc) ==
    IF acc.max_capital_usage > 0 /\ acc.capital > acc.max_capital_usage
    THEN acc.max_capital_usage
    ELSE acc.capital

\* ComputeRatio with the cap at 1.0 left out
ComputeRatioUncapped(balance, master_base) ==
    IF master_base > 0 THEN RDiv(Rat(balance), Rat(master_base)) ELSE RZero

\* first leg: ratio = child_live_balance / master_base, capped at 1.0
ComputeRatio(balance, master_base) ==
    IF master_base > 0
    THEN LET r == RDiv(Rat(balance), Rat(master_base))
         IN  IF RLess(ROne, r) THEN ROne ELSE r
    ELSE RZero

\* child_quantity = int(floor((master_qty / LOT_SIZE) * ratio) * LOT_SIZE)
ChildQuantity(master_qty, ratio) ==
    RFloor(RMul(RDiv(Rat(master_qty), Rat(LOT_SIZE)), ratio)) * LOT_SIZE

\* InitialMargin with the post-trade fetch taken although a snapshot was passed
InitialMarginPostTrade(pre, fallback) == fallback

\* the master_initial_margin execute_entry stores when the strategy is inactive
InitialMargin(pre, fallback) == IF pre > 0 THEN pre ELSE fallback

\* EntryRatio with the stored ratio looked up under a key that is never present,
\* so that the default 0.0 is used while the strategy is active
EntryRatioMissesStored(st, accounts, c) ==
    IF st.active
    THEN RZero
    ELSE ComputeRatio(ChildBalance(accounts[c]), st.master_initial_margin.val)

\* the ratio used for a child; st is STRATEGY_STATE with master_initial_margin set
EntryRatio(st, accounts, c) ==
    IF st.active
    THEN IF c \in DOMAIN st.frozen_ratio.val THEN st.frozen_ratio.val[c] ELSE RZero
    ELSE ComputeRatio(ChildBalance(accounts[c]), st.master_initial_margin.val)

\* a child raises before its orders when the strategy is active and
\* STRATEGY_STATE["frozen_ratio"] is None (None has no .get)
EntryChildFails(st) == st.active /\ ~st.frozen_ratio.some

EntryPlacements(c, ratio, orders) ==
    LET all == [i \in 1..Len(orders) |->
                  [child |-> c,
                   kind |-> "entry",
                   token |-> orders[i].instrument_token,
                   txn |-> orders[i].transaction_type,
                   product |-> orders[i].product,
                   qty |-> ChildQuantity(orders[i].quantity, ratio),
                   ref |-> orders[i].quantity]]
        Keep(p) == p.qty # 0
    IN  SelectSeq(all, Keep)

\* the db.orders document of a placement
OrderDoc(p) ==
    IF p.kind = "entry"
    THEN [child_id |-> p.child, type |-> "entry", qty |-> p.qty, has_token |-> TRUE,
          instrument_token |-> p.token, transaction_type |-> p.txn]
    ELSE [child_id |-> p.child, type |-> "exit", qty |-> p.qty, has_token |-> FALSE,
          instrument_token |-> "none", transaction_type |-> "none"]

Docs(placed) == [i \in 1..Len(placed) |-> OrderDoc(placed[i])]

\* children_docs: the child accounts found in db.accounts, in file order
ChildrenOf(accounts) ==
    LET Present(c) == c \in DOMAIN accounts
    IN  SelectSeq(Children, Present)

\* PlacingChildren with the exception of the failing child leaving the loop
PlacingChildrenAborting(children, bad) ==
    LET hit == {i \in 1..Len(children) : children[i] = bad}
    IN  IF hit = {} THEN children
        ELSE SubSeq(children, 1, (CHOOSE i \in hit : TRUE) - 1)

\* the children whose orders are recorded when the db.orders access of child bad
\* raises: the try/except sits inside the loop over the children
PlacingChildren(children, bad) ==
    LET Works(c) == c # bad
    IN  SelectSeq(children, Works)

execute_entry(st, accounts, orders, pre, fallback, bad) ==
    LET agg == aggregate_orders(orders)
        children == ChildrenOf(accounts)
        placing == PlacingChildren(children, bad)
        st1 == IF st.active THEN st
               ELSE [st EXCEPT !.master_initial_margin = Some(InitialMargin(pre, fallback))]
        used == [c \in DOMAIN accounts |-> EntryRatio(st1, accounts, c)]
        placed == Flatten([i \in 1..Len(placing) |->
                      IF EntryChildFails(st1) THEN <<>>
                      ELSE EntryPlacements(placing[i], used[placing[i]], agg)])
        old == st1.frozen_ratio.val
        frozen == [c \in (DOMAIN old) \cup DOMAIN accounts |->
                      IF c \in DOMAIN accounts THEN used[c] ELSE old[c]]
        st2 == IF st.active THEN st1
               ELSE [st1 EXCEPT !.frozen_ratio = Some(frozen), !.active = TRUE]
    IN  IF Len(children) = 0
        THEN [st |-> st1, placed |-> <<>>, used |-> used, saved |-> FALSE]
        ELSE [st |-> st2, placed |-> placed, used |-> used, saved |-> ~st.active]

(***************************************************************************)
(* execute_exit                                                            *)
(***************************************************************************)
\* DRY_RUN: net position of a child on a token from its db.orders history;
\* documents without instrument_token / transaction_type are skipped
RECURSIVE PosFromLog(_, _, _)
PosFromLog(log, c, t) ==
    IF log = <<>> THEN 0
    ELSE LET o == Head(log)
             d == IF o.child_id = c /\ o.has_token /\ o.instrument_token = t
                  THEN IF o.transaction_type = "BUY" THEN o.qty
                       ELSE IF o.transaction_type = "SELL" THEN -o.qty ELSE 0
                  ELSE 0
         IN  d + PosFromLog(Tail(log), c, t)

SimulatedPositions(log, c) == [t \in Tokens |-> PosFromLog(log, c, t)]

\* exit_ratio = min(exit_ratio, 1.0)
ClampRatio(r) == IF RLess(ROne, r) THEN ROne ELSE r

\* exit_qty = floor(abs(child_open_qty) * exit_ratio), capped at abs(child_open_qty)
ExitQty(child_open_qty, exit_ratio) ==
    LET q == RFloor(RMul(Rat(Abs(child_open_qty)), ClampRatio(exit_ratio)))
    IN  IF q > Abs(child_open_qty) THEN Abs(child_open_qty) ELSE q

\* ReducedPosition with the update of pos_map left out
ReducedPositionKept(child_open_qty, exit_qty) == child_open_qty

\* the in-loop position after an exit of exit_qty
ReducedPosition(child_open_qty, exit_qty) ==
    IF child_open_qty > 0
    THEN (IF child_open_qty - exit_qty > 0 THEN child_open_qty - exit_qty ELSE 0)
    ELSE -(Abs(child_open_qty) - exit_qty)

\* the exit orders of one child, the position map threaded through the orders
RECURSIVE ExitPlacements(_, _, _, _)
ExitPlacements(c, pos_map, exit_ratio, orders) ==
    IF orders = <<>> THEN <<>>
    ELSE LET o == Head(orders)
             t == o.instrument_token
             open == pos_map[t]
             q == ExitQty(open, exit_ratio)
         IN  IF open = 0 \/ q = 0
             THEN ExitPlacements(c, pos_map, exit_ratio, Tail(orders))
             ELSE <<[child |-> c, kind |-> "exit", token |-> t,
                     txn |-> o.transaction_type, product |-> o.product,
                     qty |-> q, ref |-> open]>>
                  \o ExitPlacements(c, [pos_map EXCEPT ![t] = ReducedPosition(open, q)],
                                    exit_ratio, Tail(orders))

\* exit_ratio >= 0.99 ("Full Exit Detected")
IsFullExit(exit_ratio) == RLeq(<<FULL_EXIT_PCT, 100>>, exit_ratio)

\* the strategy state execute_exit leaves behind
StateAfterExit(st, exit_ratio) == IF IsFullExit(exit_ratio) THEN DefaultState ELSE st

execute_exit(st, accounts, log, exit_ratio, orders, bad) ==
    LET agg == aggregate_orders(orders)
        placing == PlacingChildren(ChildrenOf(accounts), bad)
        placed == Flatten([i \in 1..Len(placing) |->
                      ExitPlacements(placing[i], SimulatedPositions(log, placing[i]),
                                     exit_ratio, agg)])
    IN  [st |-> StateAfterExit(st, exit_ratio), placed |-> placed,
         saved |-> IsFullExit(exit_ratio)]

(***************************************************************************)
(* State.                                                                  *)
(*   broker side : master_connected, broker_orders, master_positions,      *)
(*                 master_equity                                           *)
(*   files       : accounts (children of db.accounts), orders_log          *)
(*                 (db.orders), state_file (data/strategy_state.json)      *)
(*   process     : pc, seen_order_ids, initialized, last_margin,           *)
(*                 master_capital, instrument_map, STRATEGY_STATE          *)
(*   history     : last_tick (what the latest poll iteration did),         *)
(*                 pass_count, entry_count, polls_since_entry, first_tick, *)
(*                 crashes                                                 *)
(***************************************************************************)
VARIABLES master_connected, broker_orders, master_positions, master_equity,
          accounts, orders_log, state_file,
          pc, seen_order_ids, initialized, last_margin, master_capital,
          instrument_map, STRATEGY_STATE,
          last_tick, pass_count, entry_count, polls_since_entry, first_tick, crashes,
          APP_STATE, app_pc, app_orders, first_entries

broker == <<master_connected, broker_orders, master_positions, master_equity>>
files == <<accounts, orders_log, state_file>>
process == <<pc, seen_order_ids, initialized, last_margin, master_capital,
             instrument_map, STRATEGY_STATE>>
history == <<last_tick, pass_count, entry_count, polls_since_entry, first_tick, crashes>>
\* the web application's process (uvicorn app:app): its own copy of the module
\* global STRATEGY_STATE, where it stands in a /trading/replicate request and
\* the order of that request; first_entries records which processes performed a
\* first-entry activation while that request was in flight
app == <<APP_STATE, app_pc, app_orders, first_entries>>
vars == <<broker, files, process, history, app>>

OrderIds == 1..MaxOrders
EmptyMap == [t \in Tokens |-> RZero]
NoUsed == [c \in ChildIds |-> RZero]

Idle == [kind |-> "idle", new_ids |-> {}, orders |-> <<>>, was_active |-> FALSE,
         ratio |-> RZero, placed |-> <<>>, used |-> NoUsed, fault |-> "none",
         allocation_pct |-> RZero, save_failed |-> FALSE]

\* _master_is_flat on a positions response
IsFlat(positions) == \A t \in Tokens : positions[t] = 0

Ids(orders) == {orders[i].order_id : i \in 1..Len(orders)}

(***************************************************************************)
(* start_polling, lines 63-69: the COMPLETE orders not yet seen.           *)
(***************************************************************************)
\* NewOrders with the test of the status left out
NewOrdersAnyStatus(orders, seen) ==
    LET Fresh(o) == o.order_id \notin seen
    IN  SelectSeq(orders, Fresh)

NewOrders(orders, seen) ==
    LET Fresh(o) == o.status = "COMPLETE" /\ o.order_id \notin seen
    IN  SelectSeq(orders, Fresh)

\* SeenAfter with the seen_order_ids.add left out
SeenAfterForgets(seen, new_orders) == seen

SeenAfter(seen, new_orders) == seen \cup Ids(new_orders)

(***************************************************************************)
(* process_tick, the instrument map.                                       *)
(***************************************************************************)
Count(orders, t) == Cardinality({i \in 1..Len(orders) : orders[i].instrument_token = t})

\* entry: the delta split equally over the new orders and added per order
MapAfterEntry(map, orders, margin_delta) ==
    LET split_delta == RDiv(Rat(margin_delta), Rat(Len(orders)))
    IN  [t \in Tokens |-> RAdd(map[t], RMul(Rat(Count(orders, t)), split_delta))]

RECURSIVE TotalUsed(_, _)
TotalUsed(map, orders) ==
    IF orders = <<>> THEN RZero
    ELSE RAdd(map[Head(orders).instrument_token], TotalUsed(map, Tail(orders)))

\* exit: each relevant token in turn is reduced by its share of the release
RECURSIVE MapAfterExit(_, _, _, _)
MapAfterExit(map, orders, released, total) ==
    IF orders = <<>> THEN map
    ELSE LET t == Head(orders).instrument_token
             weight == RDiv(map[t], total)
             attributed_release == RMul(Rat(released), weight)
         IN  MapAfterExit([map EXCEPT ![t] = RMax(RZero, RSub(map[t], attributed_release))],
                          Tail(orders), released, total)

\* exit_ratio = released / total, clamped to 1.0
ExitRatio(released, total) == ClampRatio(RDiv(Rat(released), total))

(***************************************************************************)
(* MarginOrchestrator.process_tick on an initialised orchestrator.         *)
(* fail names the broker call that raises in this tick, if any.  The       *)
(* result carries the new orchestrator fields, the new STRATEGY_STATE,     *)
(* whether it was written to the file, the child orders placed, and the    *)
(* broker call that did raise (fault).                                     *)
(***************************************************************************)
\* TickResult with the baseline left as it was after an entry
TickResultStale(kind, margin, map, st, saved, placed, ratio, used, fault, allocation_pct) ==
    [kind |-> kind, last_margin |-> IF kind = "entry" THEN last_margin ELSE margin,
     instrument_map |-> map, st |-> st, saved |-> saved, placed |-> placed,
     ratio |-> ratio, used |-> used, fault |-> fault, allocation_pct |-> allocation_pct]

TickResult(kind, margin, map, st, saved, placed, ratio, used, fault, allocation_pct) ==
    [kind |-> kind, last_margin |-> margin, instrument_map |-> map, st |-> st,
     saved |-> saved, placed |-> placed, ratio |-> ratio, used |-> used,
     fault |-> fault, allocation_pct |-> allocation_pct]

\* AllocationPct with the latest margin as the base instead of the capital
AllocationPctOfLastMargin(margin_delta, capital) == RDiv(Rat(margin_delta), Rat(last_margin))

\* allocation_pct = margin_delta / self._master_capital
AllocationPct(margin_delta, capital) == RDiv(Rat(margin_delta), Rat(capital))

\* the broker's live_balance figure read by execute_entry's fallback; the
\* broker of the model reports one equity figure
BrokerLiveBalance == master_equity

\* process_tick below its first three lines: the orchestrator is initialised
process_tick_ready(new_orders, fail) ==
    LET live_balance == master_equity
        margin_delta == last_margin - live_balance
        released_amount == Abs(margin_delta)
        flat == fail # "positions" /\ IsFlat(master_positions)
        \* kite.positions() is called, and raises, only in the release branch
        positions_fault == IF fail = "positions" THEN "positions" ELSE "none"
        total == TotalUsed(instrument_map, new_orders)
        Same(kind, margin) ==
            TickResult(kind, margin, instrument_map, STRATEGY_STATE, FALSE, <<>>,
                       RZero, NoUsed, IF fail = "margins" THEN "margins" ELSE "none",
                       RZero)
        Exit(ratio, map) ==
            LET x == execute_exit(STRATEGY_STATE, accounts, orders_log, ratio, new_orders,
                                  "none")
            IN  TickResult("exit", live_balance, map, x.st, x.saved, x.placed,
                           ratio, NoUsed, positions_fault, RZero)
        Entry ==
            LET e == execute_entry(STRATEGY_STATE, accounts, new_orders, last_margin,
                                   BrokerLiveBalance, "none")
            IN  TickResult("entry", live_balance,
                           MapAfterEntry(instrument_map, new_orders, margin_delta),
                           e.st, e.saved, e.placed, RZero, e.used, "none",
                           AllocationPct(margin_delta, master_capital))
    IN  IF fail = "margins" THEN Same("tick_failed", last_margin)
        ELSE IF new_orders = <<>> THEN Same("no_orders", live_balance)
        ELSE IF margin_delta > 0
             THEN IF margin_delta < MIN_DELTA THEN Same("no_event", live_balance)
                  ELSE IF master_capital = 0 THEN Same("tick_failed", last_margin)
                  ELSE Entry
        ELSE IF margin_delta < 0
             THEN IF flat THEN Exit(ROne, EmptyMap)
                  ELSE IF RLess(RZero, total)
                       THEN Exit(ExitRatio(released_amount, total),
                                 MapAfterExit(instrument_map, new_orders,
                                              released_amount, total))
                       ELSE Exit(ROne, instrument_map)
        ELSE Same("no_event", live_balance)

\* process_tick with "if not self._initialized: initialize(); return" left out:
\* the tick is processed on the fields as __init__ set them
process_tickUnhydrated(new_orders, fail) == process_tick_ready(new_orders, fail)

\* process_tick: an orchestrator that is not initialised calls initialize() and
\* returns; initialize() re-raises its exception, which leaves process_tick
\* (the call is outside the try) and is caught by the poll loop
process_tick(new_orders, fail) ==
    IF initialized THEN process_tick_ready(new_orders, fail)
    ELSE IF fail = "margins"
         THEN TickResult("poll_error", last_margin, instrument_map, STRATEGY_STATE, FALSE,
                         <<>>, RZero, NoUsed, "margins", RZero)
         ELSE TickResult("hydrate", master_equity, instrument_map, STRATEGY_STATE, FALSE,
                         <<>>, RZero, NoUsed, "none", RZero)

(***************************************************************************)
(* History bookkeeping.                                                    *)
(***************************************************************************)
Bump(count, ids) == [i \in OrderIds |-> IF i \in ids /\ count[i] < 2
                                        THEN count[i] + 1 ELSE count[i]]
NoCount == [i \in OrderIds |-> 0]
\* poll iterations completed since the latest entry dispatch of this run, counted
\* up to PollsPerGrace and only while the strategy is active
Elapsed(n, st) == IF st.active /\ n < PollsPerGrace THEN n + 1 ELSE PollsPerGrace

TypeOK ==
    /\ master_connected \in BOOLEAN
    /\ master_equity \in EquityLevels
    /\ pc \in {"down", "running", "stopped"}
    /\ seen_order_ids \subseteq OrderIds
    /\ initialized \in BOOLEAN
    /\ STRATEGY_STATE.active \in BOOLEAN
    /\ load_strategy_state(state_file).active \in BOOLEAN
    /\ Len(broker_orders) <= MaxOrders
    /\ crashes \in 0..MaxCrashes

(***************************************************************************)
(* Initial state: the files as installed, the process not started.         *)
(***************************************************************************)
Init ==
    /\ master_connected = TRUE
    /\ broker_orders = <<>>
    /\ master_positions = [t \in Tokens |-> 0]
    /\ master_equity = StartEquity
    /\ accounts \in {ChildAccounts, NoAccounts}
    /\ orders_log = <<>>
    /\ state_file = DefaultState
    /\ pc = "down"
    /\ seen_order_ids = {}
    /\ initialized = FALSE
    /\ last_margin = 0
    /\ master_capital = 0
    /\ instrument_map = EmptyMap
    /\ STRATEGY_STATE = DefaultState
    /\ last_tick = Idle
    /\ pass_count = NoCount
    /\ entry_count = NoCount
    /\ polls_since_entry = PollsPerGrace
    /\ first_tick = FALSE
    /\ crashes = 0
    /\ APP_STATE = DefaultState
    /\ app_pc = "down"
    /\ app_orders = <<>>
    /\ first_entries = {}

(***************************************************************************)
(* The master and the market (the broker's side).                          *)
(***************************************************************************)
MaxPosition == MaxOrders * LOT_SIZE

NextOrder(t, txn, product, qty, status) ==
    [order_id |-> Len(broker_orders) + 1, status |-> status, instrument_token |-> t,
     transaction_type |-> txn, product |-> product, quantity |-> qty]

\* a master order is filled: the position moves, and the equity moves by the
\* margin blocked or released and by the mark to market
MasterTrade(t, txn, product, qty, equity) ==
    LET pos == master_positions[t] + (IF txn = "BUY" THEN qty ELSE -qty)
    IN  /\ Len(broker_orders) < MaxOrders
        /\ Abs(pos) <= MaxPosition
        /\ broker_orders' = Append(broker_orders, NextOrder(t, txn, product, qty, "COMPLETE"))
        /\ master_positions' = [master_positions EXCEPT ![t] = pos]
        /\ master_equity' = equity
        /\ UNCHANGED <<master_connected, files, process, history, app>>

\* a master order is rejected by the broker: it stays in the order list
MasterRejected ==
    LET t == CHOOSE x \in Tokens : TRUE
        txn == "BUY"
        product == CHOOSE x \in TradedProducts : TRUE
        qty == CHOOSE x \in MasterQtys : TRUE
    IN
        /\ Len(broker_orders) < MaxOrders
        /\ broker_orders' = Append(broker_orders, NextOrder(t, txn, product, qty, "REJECTED"))
        /\ UNCHANGED <<master_connected, master_positions, master_equity, files, process,
                       history, app>>

\* mark to market drift of the master's equity
MarketMove(equity) ==
    /\ equity # master_equity
    /\ master_equity' = equity
    /\ UNCHANGED <<master_connected, broker_orders, master_positions, files, process,
                   history, app>>

\* the master logs in (status connected) or its token expires
MasterStatus(connected) ==
    /\ connected # master_connected
    /\ master_connected' = connected
    /\ UNCHANGED <<broker_orders, master_positions, master_equity, files, process,
                   history, app>>

(***************************************************************************)
(* The process.                                                            *)
(***************************************************************************)
\* start_polling up to the loop: the module load of STRATEGY_STATE and
\* orchestrator.initialize(); a failed initialize ends the poller
Start(fail) ==
    /\ pc = "down"
    /\ STRATEGY_STATE' = load_strategy_state(state_file)
    /\ seen_order_ids' = {}
    /\ instrument_map' = EmptyMap
    /\ IF master_connected /\ ~fail
       THEN /\ pc' = "running"
            /\ initialized' = TRUE
            /\ last_margin' = master_equity
            /\ master_capital' = master_equity
       ELSE /\ pc' = "stopped"
            /\ UNCHANGED <<initialized, last_margin, master_capital>>
    /\ last_tick' = Idle
    /\ pass_count' = NoCount
    /\ polls_since_entry' = PollsPerGrace
    /\ first_tick' = TRUE
    /\ UNCHANGED <<broker, files, entry_count, crashes, app>>

\* the process is killed: everything in memory is lost
Crash ==
    /\ pc \in {"running", "stopped"}
    /\ crashes < MaxCrashes
    /\ crashes' = crashes + 1
    /\ pc' = "down"
    /\ seen_order_ids' = {}
    /\ initialized' = FALSE
    /\ last_margin' = 0
    /\ master_capital' = 0
    /\ instrument_map' = EmptyMap
    /\ STRATEGY_STATE' = DefaultState
    /\ last_tick' = Idle
    /\ pass_count' = NoCount
    /\ polls_since_entry' = PollsPerGrace
    /\ first_tick' = FALSE
    /\ UNCHANGED <<broker, files, entry_count, app>>

\* the process is killed inside save_strategy_state, at the end of the
\* execute_entry or execute_exit of a tick, after open(STATE_FILE, "w") and
\* before json.dump has written the document: the child orders of the tick are
\* recorded, the file is torn, everything in memory is lost
CrashInSave ==
    LET new_orders == NewOrders(broker_orders, seen_order_ids)
        r == process_tick(new_orders, "none")
    IN  /\ pc = "running"
        /\ master_connected
        /\ crashes < MaxCrashes
        /\ r.saved
        /\ crashes' = crashes + 1
        /\ orders_log' = orders_log \o Docs(r.placed)
        /\ state_file' = save_strategy_state(state_file, r.st, "write")
        /\ pc' = "down"
        /\ seen_order_ids' = {}
        /\ initialized' = FALSE
        /\ last_margin' = 0
        /\ master_capital' = 0
        /\ instrument_map' = EmptyMap
        /\ STRATEGY_STATE' = DefaultState
        /\ last_tick' = Idle
        /\ pass_count' = NoCount
        /\ polls_since_entry' = PollsPerGrace
        /\ first_tick' = FALSE
        /\ UNCHANGED <<broker, accounts, entry_count, app>>

\* PcAfterIteration with the exception of a failed iteration leaving the loop
PcAfterIterationRaising(fault) == IF fault = "none" THEN "running" ELSE "stopped"

\* the loop after an iteration: every Exception is caught inside the loop body
PcAfterIteration(fault) == "running"

\* one iteration of the poll loop, the sleep included
PollIteration(fail) ==
    LET new_orders == NewOrders(broker_orders, seen_order_ids)
        r == process_tick(new_orders, fail)
    IN  /\ pc = "running"
        /\ IF ~master_connected
           THEN /\ last_tick' = [Idle EXCEPT !.kind = "waiting"]
                /\ polls_since_entry' = Elapsed(polls_since_entry, STRATEGY_STATE)
                /\ UNCHANGED <<broker, files, process, pass_count, entry_count,
                               first_tick, crashes, app>>
           ELSE IF fail = "orders"
           THEN /\ last_tick' = [Idle EXCEPT !.kind = "poll_error", !.fault = "orders"]
                /\ polls_since_entry' = Elapsed(polls_since_entry, STRATEGY_STATE)
                /\ pc' = PcAfterIteration("orders")
                /\ UNCHANGED <<broker, files, seen_order_ids, initialized, last_margin,
                               master_capital, instrument_map, STRATEGY_STATE,
                               pass_count, entry_count, first_tick, crashes, app>>
           ELSE /\ seen_order_ids' = SeenAfter(seen_order_ids, new_orders)
                /\ last_margin' = r.last_margin
                /\ instrument_map' = r.instrument_map
                /\ STRATEGY_STATE' = r.st
                /\ state_file' = IF r.saved THEN save_strategy_state(state_file, r.st, "none")
                                  ELSE state_file
                /\ orders_log' = orders_log \o Docs(r.placed)
                /\ last_tick' = [kind |-> r.kind, new_ids |-> Ids(new_orders),
                                 orders |-> new_orders,
                                 was_active |-> STRATEGY_STATE.active,
                                 ratio |-> r.ratio, placed |-> r.placed, used |-> r.used,
                                 fault |-> r.fault, allocation_pct |-> r.allocation_pct,
                                 save_failed |-> FALSE]
                /\ pass_count' = Bump(pass_count, Ids(new_orders))
                /\ entry_count' = IF r.kind = "entry"
                                  THEN Bump(entry_count, Ids(new_orders))
                                  ELSE entry_count
                /\ polls_since_entry' = IF r.kind = "entry" THEN 0
                                        ELSE Elapsed(polls_since_entry, r.st)
                /\ first_tick' = FALSE
                /\ pc' = PcAfterIteration(r.fault)
                /\ initialized' = (initialized \/ r.kind = "hydrate")
                /\ master_capital' = IF r.kind = "hydrate" THEN r.last_margin
                                      ELSE master_capital
                /\ first_entries' = IF /\ app_pc = "entering"
                                        /\ ~STRATEGY_STATE.active
                                        /\ r.st.active
                                     THEN first_entries \cup {"poller"}
                                     ELSE first_entries
                /\ UNCHANGED <<broker, accounts, crashes, APP_STATE, app_pc, app_orders>>

Next ==
    \/ \E t \in TradedTokens, txn \in {"BUY", "SELL"}, p \in TradedProducts,
          qty \in MasterQtys, e \in EquityLevels :
          MasterTrade(t, txn, p, qty, e)
    \/ MasterRejected
    \/ \E e \in EquityLevels : MarketMove(e)
    \/ \E f \in BOOLEAN : Start(f)
    \/ Crash
    \/ \E f \in {"none", "orders", "margins", "positions"} : PollIteration(f)

Spec == Init /\ [][Next]_vars

(***************************************************************************)
(* The replicator called directly, as replicate_order does for the         *)
(* /replicate route: execute_entry and execute_exit applied to order lists *)
(* and ratios drawn from small sets, the poller not running.  bad is the   *)
(* child whose db.orders access raises during the call ("none": no one).   *)
(***************************************************************************)
Fills == [instrument_token : TradedTokens, transaction_type : {"BUY", "SELL"},
          product : Products, quantity : MasterQtys]

CallOrder(i, f) ==
    [order_id |-> i, status |-> "COMPLETE", instrument_token |-> f.instrument_token,
     transaction_type |-> f.transaction_type, product |-> f.product,
     quantity |-> f.quantity]

CallOrders ==
    UNION {{[i \in 1..n |-> CallOrder(i, f[i])] : f \in [1..n -> Fills]} : n \in 0..MaxFills}

ExitRatios == {<<1, 2>>, <<FULL_EXIT_PCT, 100>>, ROne}
FailingChildren == {"none", "c2"}

\* the master_initial_margin of execute_entry's fallback: 0.0 when the fetch of
\* the master's margins raises (bad = "master"), else the live balance fetched
FallbackMargin(bad) == IF bad = "master" THEN 0 ELSE BrokerLiveBalance

CallEntry(orders, pre, bad, disk_fails) ==
    LET e == execute_entry(STRATEGY_STATE, accounts, orders, pre, FallbackMargin(bad), bad)
    IN  /\ pc = "down"
        /\ Len(orders_log) < MaxLog
        /\ STRATEGY_STATE' = e.st
        /\ state_file' = IF e.saved THEN save_strategy_state(state_file, e.st, disk_fails)
                          ELSE state_file
        /\ orders_log' = orders_log \o Docs(e.placed)
        /\ last_tick' = [kind |-> "entry", new_ids |-> Ids(orders), orders |-> orders,
                         was_active |-> STRATEGY_STATE.active, ratio |-> RZero,
                         placed |-> e.placed, used |-> e.used, fault |-> bad,
                         allocation_pct |-> RZero, save_failed |-> e.saved /\ disk_fails # "none"]
        /\ UNCHANGED <<broker, accounts, pc, seen_order_ids, initialized, last_margin,
                       master_capital, instrument_map, pass_count, entry_count,
                       polls_since_entry, first_tick, crashes, app>>

CallExit(exit_ratio, orders, bad, disk_fails) ==
    LET x == execute_exit(STRATEGY_STATE, accounts, orders_log, exit_ratio, orders, bad)
    IN  /\ pc = "down"
        /\ Len(orders_log) < MaxLog
        /\ STRATEGY_STATE' = x.st
        /\ state_file' = IF x.saved THEN save_strategy_state(state_file, x.st, disk_fails)
                          ELSE state_file
        /\ orders_log' = orders_log \o Docs(x.placed)
        /\ last_tick' = [kind |-> "exit", new_ids |-> Ids(orders), orders |-> orders,
                         was_active |-> STRATEGY_STATE.active, ratio |-> exit_ratio,
                         placed |-> x.placed, used |-> NoUsed, fault |-> bad,
                         allocation_pct |-> RZero, save_failed |-> x.saved /\ disk_fails # "none"]
        /\ UNCHANGED <<broker, accounts, pc, seen_order_ids, initialized, last_margin,
                       master_capital, instrument_map, pass_count, entry_count,
                       polls_since_entry, first_tick, crashes, app>>

NextReplicator ==
    \/ \E o \in CallOrders, pre \in {0, StartEquity}, b \in FailingChildren :
          CallEntry(o, pre, b, "none")
    \/ \E r \in ExitRatios, o \in CallOrders, b \in FailingChildren :
          CallExit(r, o, b, "none")

SpecReplicator == Init /\ [][NextReplicator]_vars

\* the same with the master's account status changing under the poller
(***************************************************************************)
(* The replicator called directly with one order at a time, an order for   *)
(* an equity among them, and with the write of the state file failing.     *)
(***************************************************************************)
\* a fill of ten shares of an equity (T2 stands for a stock, T1 for an index
\* option of lot size 65)
EquityFills == {[instrument_token |-> "T2", transaction_type |-> "BUY",
                 product |-> "MIS", quantity |-> 10]}

SingleOrders == {<<>>} \cup {<<CallOrder(1, f)>> : f \in Fills \cup EquityFills}

\* one fault per call: a child's placement raises, the fetch of the master's
\* margins raises, or the write of the state file raises
CallFaults ==
    {<<b, "none">> : b \in FailingChildren \cup {"master"}}
    \cup {<<"none", d>> : d \in {"open", "write"}}

NextStorage ==
    \/ \E o \in SingleOrders, pre \in {0, StartEquity}, f \in CallFaults :
          CallEntry(o, pre, f[1], f[2])
    \/ \E r \in ExitRatios, o \in SingleOrders, f \in CallFaults :
          CallExit(r, o, f[1], f[2])

SpecStorage == Init /\ [][NextStorage]_vars

(***************************************************************************)
(* The web application next to the poller.  polling_service.py and         *)
(* uvicorn app:app are two operating system processes: each imports        *)
(* core.replicator and holds its own STRATEGY_STATE, both write            *)
(* data/strategy_state.json, and nothing locks the file.  Inside one       *)
(* process execute_entry runs without a suspension point; between the      *)
(* processes it interleaves, here at the point between the setting of      *)
(* master_initial_margin and the loop over the children.                   *)
(***************************************************************************)
\* import of core.replicator by the web application
AppStart ==
    /\ app_pc = "down"
    /\ app_pc' = "idle"
    /\ APP_STATE' = load_strategy_state(state_file)
    /\ UNCHANGED <<broker, files, process, history, app_orders, first_entries>>

\* POST /trading/replicate with a BUY: replicate_order calls
\* execute_entry(master, 0.0, [order]); execute_entry up to the loop over the
\* children (no snapshot is passed: the fallback fetch of the live balance)
AppEntryBegin(f) ==
    /\ app_pc = "idle"
    /\ f.transaction_type = "BUY"
    /\ DOMAIN accounts # {}
    /\ app_pc' = "entering"
    /\ app_orders' = <<CallOrder(1, f)>>
    /\ APP_STATE' = IF APP_STATE.active THEN APP_STATE
                    ELSE [APP_STATE EXCEPT !.master_initial_margin =
                                               Some(InitialMargin(0, BrokerLiveBalance))]
    /\ first_entries' = {}
    /\ UNCHANGED <<broker, files, process, history>>

\* execute_entry from the loop over the children to its end
AppEntryEnd ==
    LET e == execute_entry(APP_STATE, accounts, app_orders,
                           APP_STATE.master_initial_margin.val, BrokerLiveBalance, "none")
    IN  /\ app_pc = "entering"
        /\ app_pc' = "done"
        /\ APP_STATE' = e.st
        /\ state_file' = IF e.saved THEN save_strategy_state(state_file, e.st, "none")
                          ELSE state_file
        /\ orders_log' = orders_log \o Docs(e.placed)
        /\ first_entries' = IF ~APP_STATE.active /\ e.st.active
                             THEN first_entries \cup {"app"} ELSE first_entries
        /\ UNCHANGED <<broker, accounts, process, history, app_orders>>

NextAdmin ==
    \/ \E t \in TradedTokens, txn \in {"BUY", "SELL"}, p \in TradedProducts,
          qty \in MasterQtys, e \in EquityLevels :
          MasterTrade(t, txn, p, qty, e)
    \/ Start(FALSE)
    \/ PollIteration("none")
    \/ AppStart
    \/ \E f \in Fills : AppEntryBegin(f)
    \/ AppEntryEnd

SpecAdmin == Init /\ [][NextAdmin]_vars

(***************************************************************************)
(* The poller killed while it writes the strategy state, and restarted.    *)
(***************************************************************************)
NextCrash ==
    \/ \E t \in TradedTokens, txn \in {"BUY", "SELL"}, p \in TradedProducts,
          qty \in MasterQtys, e \in EquityLevels :
          MasterTrade(t, txn, p, qty, e)
    \/ Start(FALSE)
    \/ PollIteration("none")
    \/ CrashInSave

SpecCrash == Init /\ [][NextCrash]_vars

NextLogin == Next \/ \E c \in BOOLEAN : MasterStatus(c)
SpecLogin == Init /\ [][NextLogin]_vars

(***************************************************************************)
(* The start of the poller around the master's login: the master's status  *)
(* flips, the poller starts once and polls.  The event loop runs the       *)
(* poller's coroutine whenever it can take a step (weak fairness); nothing *)
(* restarts a poller that returned.                                        *)
(***************************************************************************)
PollerStep ==
    \/ Start(FALSE)
    \/ \E f \in {"none", "orders", "margins", "positions"} : PollIteration(f)

NextStartup ==
    \/ \E c \in BOOLEAN : MasterStatus(c)
    \/ MasterRejected
    \/ \E e \in EquityLevels : MarketMove(e)
    \/ PollerStep

SpecStartup == Init /\ [][NextStartup]_vars /\ WF_vars(PollerStep)

(***************************************************************************)
(* The orchestrator ticked by a driver that constructs it and calls        *)
(* process_tick without calling initialize() first.                        *)
(***************************************************************************)
InitTick ==
    /\ master_connected = TRUE
    /\ broker_orders = <<>>
    /\ master_positions = [t \in Tokens |-> 0]
    /\ master_equity = StartEquity
    /\ accounts = ChildAccounts
    /\ orders_log = <<>>
    /\ state_file = DefaultState
    /\ pc = "running"
    /\ seen_order_ids = {}
    /\ initialized = FALSE
    /\ last_margin = 0
    /\ master_capital = 0
    /\ instrument_map = EmptyMap
    /\ STRATEGY_STATE = DefaultState
    /\ last_tick = Idle
    /\ pass_count = NoCount
    /\ entry_count = NoCount
    /\ polls_since_entry = PollsPerGrace
    /\ first_tick = TRUE
    /\ crashes = 0
    /\ APP_STATE = DefaultState
    /\ app_pc = "down"
    /\ app_orders = <<>>
    /\ first_entries = {}

NextTick ==
    \/ \E t \in TradedTokens, txn \in {"BUY", "SELL"}, p \in TradedProducts,
          qty \in MasterQtys, e \in EquityLevels :
          MasterTrade(t, txn, p, qty, e)
    \/ \E e \in EquityLevels : MarketMove(e)
    \/ \E f \in {"none", "orders", "margins", "positions"} : PollIteration(f)

SpecTick == InitTick /\ [][NextTick]_vars

(***************************************************************************)
(* Vocabulary of the properties.                                           *)
(***************************************************************************)
\* a step of the poll loop: the process stays up and the broker is untouched
PollStep == pc = "running" /\ pc' = "running" /\ UNCHANGED broker

\* the latest poll iteration ran process_tick to its end (no broker call raised)
TickCompleted == last_tick.kind \in {"no_orders", "no_event", "entry", "exit"}

\* the latest poll iteration dispatched execute_exit with ratio 1.0
ClosedAll == last_tick.kind = "exit" /\ last_tick.ratio = ROne

Placed == {last_tick.placed[i] : i \in 1..Len(last_tick.placed)}

\* the child orders of a list that were placed on child c, in order
PlacedFor(placed, c) ==
    LET Of(p) == p.child = c
    IN  SelectSeq(placed, Of)

\* the summed quantity of the fills of a list that have the key of k
RECURSIVE SumQty(_, _)
SumQty(orders, k) ==
    IF orders = <<>> THEN 0
    ELSE (IF SameKey(Head(orders), k) THEN Head(orders).quantity ELSE 0)
         + SumQty(Tail(orders), k)

\* the master's net quantity per instrument as of the orders the poller has
\* handed to the orchestrator so far, i.e. as of the previous tick
RECURSIVE NetOf(_, _, _)
NetOf(orders, ids, t) ==
    IF orders = <<>> THEN 0
    ELSE LET o == Head(orders)
             d == IF o.status = "COMPLETE" /\ o.order_id \in ids /\ o.instrument_token = t
                  THEN (IF o.transaction_type = "BUY" THEN o.quantity ELSE -o.quantity)
                  ELSE 0
         IN  d + NetOf(Tail(orders), ids, t)

PositionsAtLastTick == [t \in Tokens |-> NetOf(broker_orders, seen_order_ids, t)]

(***************************************************************************)
(* C1: on every tick after initialisation, if the strategy is active, the  *)
(* master holds zero net quantity in every instrument and no entry was     *)
(* dispatched within the grace window (here: PollsPerGrace poll iterations *)
(* have been completed since the latest entry), the tick dispatches a      *)
(* close-all exit (ratio 1.0) and clears the strategy state, also when the *)
(* tick's new-orders list is empty.                                        *)
(***************************************************************************)
C1_FlatTickClosesAll ==
    [][(/\ PollStep
        /\ initialized
        /\ STRATEGY_STATE.active
        /\ IsFlat(master_positions)
        /\ polls_since_entry = PollsPerGrace
        /\ TickCompleted')
       => (ClosedAll' /\ ~STRATEGY_STATE'.active)]_vars

(***************************************************************************)
(* C2: restart recovery.  After the process was killed with the strategy   *)
(* persisted as active, if the master is flat at the first tick after      *)
(* initialisation, that tick dispatches the close-all exit and clears the  *)
(* strategy state in memory and in the state file.                         *)
(***************************************************************************)
C2_RestartRecovery ==
    [][(/\ PollStep
        /\ first_tick
        /\ crashes > 0
        /\ STRATEGY_STATE.active
        /\ IsFlat(master_positions)
        /\ TickCompleted')
       => (ClosedAll' /\ ~STRATEGY_STATE'.active /\ ~state_file'.active)]_vars

(***************************************************************************)
(* C3: at-most-once across restarts: no completed master order id is part  *)
(* of more than one execute_entry dispatch, over any sequence of ticks and *)
(* restarts.                                                               *)
(***************************************************************************)
C3_EntryAtMostOnce == \A i \in OrderIds : entry_count[i] <= 1

(***************************************************************************)
(* C4: within one run of the poller an order id is passed to the           *)
(* orchestrator as a new order at most once, however often the broker's    *)
(* order list shows it.                                                    *)
(***************************************************************************)
C4_PassedOncePerRun == \A i \in OrderIds : pass_count[i] <= 1

\* an order passed once is still COMPLETE in the broker's list on a later poll,
\* which passed nothing
C4_Witness ==
    /\ pc = "running"
    /\ last_tick.kind = "no_orders"
    /\ \E k \in 1..Len(broker_orders) :
          /\ broker_orders[k].status = "COMPLETE"
          /\ pass_count[broker_orders[k].order_id] = 1
          /\ entry_count[broker_orders[k].order_id] = 1

(***************************************************************************)
(* C5: the cycle ends iff the master is flat: a tick never clears the      *)
(* strategy state while the master holds a position in some instrument,    *)
(* and a tick that finds the master flat during an active cycle clears it. *)
(***************************************************************************)
C5_ClearedIffFlat ==
    [][/\ (PollStep /\ STRATEGY_STATE.active /\ ~STRATEGY_STATE'.active)
            => IsFlat(master_positions)
       /\ (PollStep /\ STRATEGY_STATE.active /\ IsFlat(master_positions) /\ TickCompleted')
            => ~STRATEGY_STATE'.active]_vars

(***************************************************************************)
(* C6: execute_exit never mutates the strategy state: a tick that          *)
(* dispatches execute_exit, with any ratio and any orders, leaves active,  *)
(* the frozen ratios and master_initial_margin as they were.               *)
(***************************************************************************)
C6_ExitKeepsState ==
    [][(PollStep /\ last_tick'.kind = "exit") => STRATEGY_STATE' = STRATEGY_STATE]_vars

(***************************************************************************)
(* C7: while the strategy is active the frozen ratios are never changed,   *)
(* in memory or in the state file, and every execute_entry dispatched      *)
(* while the strategy is active uses for each child exactly the ratio      *)
(* stored for it.                                                          *)
(***************************************************************************)
C7_FrozenRatioKept ==
    [][/\ (STRATEGY_STATE.active /\ STRATEGY_STATE'.active)
            => STRATEGY_STATE'.frozen_ratio = STRATEGY_STATE.frozen_ratio
       /\ (state_file.active /\ state_file'.active)
            => state_file'.frozen_ratio = state_file.frozen_ratio
       /\ (STRATEGY_STATE'.active /\ state_file'.active)
            => STRATEGY_STATE'.frozen_ratio = state_file'.frozen_ratio
       /\ (PollStep /\ STRATEGY_STATE.active /\ last_tick'.kind = "entry")
            => \A c \in ChildIds :
                  /\ c \in DOMAIN STRATEGY_STATE.frozen_ratio.val
                  /\ last_tick'.used[c] = STRATEGY_STATE.frozen_ratio.val[c]]_vars

\* a later entry of a cycle has placed a child order with a stored ratio
C7_Witness ==
    /\ last_tick.kind = "entry"
    /\ last_tick.was_active
    /\ STRATEGY_STATE.active
    /\ \E p \in Placed : p.qty > 0 /\ last_tick.used[p.child] = STRATEGY_STATE.frozen_ratio.val[p.child]

(***************************************************************************)
(* C8: every stored frozen ratio r satisfies 0 <= r <= 1.                  *)
(***************************************************************************)
C8_RatioInUnitInterval ==
    \A c \in DOMAIN STRATEGY_STATE.frozen_ratio.val :
        /\ RLeq(RZero, STRATEGY_STATE.frozen_ratio.val[c])
        /\ RLeq(STRATEGY_STATE.frozen_ratio.val[c], ROne)

(***************************************************************************)
(* C9: for every entry, every child and every aggregated master order, the *)
(* quantity placed on the child is at most the master's aggregated         *)
(* quantity of that order.                                                 *)
(***************************************************************************)
C9_ChildAtMostMaster ==
    \A p \in Placed : p.kind = "entry" => p.qty <= p.ref

\* an entry of two aggregated fills placed the master's full quantity on one child
\* and a smaller one on another
C9_Witness ==
    /\ last_tick.kind = "entry"
    /\ \E p, q \in Placed :
          /\ p.ref = 2 * LOT_SIZE /\ p.qty = p.ref
          /\ q.ref = 2 * LOT_SIZE /\ q.qty > 0 /\ q.qty < q.ref

(***************************************************************************)
(* C10: for every exit with ratio >= 0.99 and every child order placed     *)
(* against a non-zero open quantity q, the exit quantity is exactly |q|.   *)
(***************************************************************************)
C10_FullExitIsExact ==
    (last_tick.kind = "exit" /\ IsFullExit(last_tick.ratio))
        => \A p \in Placed : p.qty = Abs(p.ref)

(***************************************************************************)
(* C11: for every exit with ratio < 0.99, every exit quantity placed on a  *)
(* child is a multiple of the lot size and at most the child's open        *)
(* quantity in absolute value.                                             *)
(***************************************************************************)
C11_PartialExitWholeLots ==
    (last_tick.kind = "exit" /\ ~IsFullExit(last_tick.ratio))
        => \A p \in Placed : p.qty % LOT_SIZE = 0 /\ p.qty <= Abs(p.ref)

(***************************************************************************)
(* C12: aggregation.  The aggregated list of an entry has one order per    *)
(* distinct key, each with the summed quantity of the fills of that key,   *)
(* and every child is placed, per key, exactly the quantity that a single  *)
(* fill of the summed quantity gives with the child's ratio (nothing when  *)
(* that quantity is zero).                                                 *)
(***************************************************************************)
C12_SplitFillsAsOne ==
    last_tick.kind = "entry" =>
        LET fills == last_tick.orders
            agg == aggregate_orders(fills)
        IN  /\ \A i, j \in 1..Len(agg) : SameKey(agg[i], agg[j]) => i = j
            /\ \A i \in 1..Len(agg) : agg[i].quantity = SumQty(fills, agg[i])
            /\ \A k \in 1..Len(fills) : \E i \in 1..Len(agg) : SameKey(agg[i], fills[k])
            /\ \A c \in (DOMAIN accounts) \ {last_tick.fault} : \A k \in 1..Len(fills) :
                  LET want == ChildQuantity(SumQty(fills, fills[k]), last_tick.used[c])
                      got == {i \in 1..Len(last_tick.placed) :
                                 /\ last_tick.placed[i].child = c
                                 /\ last_tick.placed[i].token = fills[k].instrument_token
                                 /\ last_tick.placed[i].txn = fills[k].transaction_type
                                 /\ last_tick.placed[i].product = fills[k].product}
                  IN  IF want = 0 THEN got = {}
                      ELSE /\ Cardinality(got) = 1
                           /\ \A i \in got : last_tick.placed[i].qty = want

\* two split fills of one lot each gave the child with ratio 1/2 one lot, which
\* neither fill gives on its own
C12_Witness ==
    /\ accounts = ChildAccounts
    /\ last_tick.kind = "entry"
    /\ last_tick.fault = "none"
    /\ Len(last_tick.orders) = 2
    /\ SameKey(last_tick.orders[1], last_tick.orders[2])
    /\ last_tick.used["c3"] = <<1, 2>>
    /\ ChildQuantity(last_tick.orders[1].quantity, last_tick.used["c3"]) = 0
    /\ \E p \in Placed : p.child = "c3" /\ p.qty = LOT_SIZE /\ p.ref = 2 * LOT_SIZE

(***************************************************************************)
(* C13: exits are detected from the master's position deltas: on a tick,   *)
(* for each instrument whose master |net quantity| decreased since the     *)
(* previous tick, execute_exit is dispatched with the ratio                *)
(* (|prev| - |curr|) / |prev| clamped to [0, 1], whatever the margin did.  *)
(***************************************************************************)
C13_ExitFromPositionDelta ==
    [][(PollStep /\ TickCompleted')
       => \A t \in Tokens :
             LET prev == Abs(PositionsAtLastTick[t])
                 curr == Abs(master_positions[t])
             IN  curr < prev
                 => /\ last_tick'.kind = "exit"
                    /\ last_tick'.ratio = ClampRatio(Norm(prev - curr, prev))]_vars

(***************************************************************************)
(* C14: close-all.  execute_exit called with an empty order list and a     *)
(* ratio >= 0.99 places, for every child and every non-zero open position  *)
(* of it, an exit order of the whole open quantity with the transaction    *)
(* type opposite to the position's sign.                                   *)
(***************************************************************************)
C14_CloseAllFlattens ==
    [][(/\ last_tick'.kind = "exit"
        /\ last_tick'.orders = <<>>
        /\ IsFullExit(last_tick'.ratio)
        /\ last_tick'.fault = "none")
       => \A c \in DOMAIN accounts : \A t \in Tokens :
             LET q == SimulatedPositions(orders_log, c)[t]
             IN  q # 0 => \E i \in 1..Len(last_tick'.placed) :
                             /\ last_tick'.placed[i].child = c
                             /\ last_tick'.placed[i].token = t
                             /\ last_tick'.placed[i].qty = Abs(q)
                             /\ last_tick'.placed[i].txn = IF q > 0 THEN "SELL" ELSE "BUY"]_vars

(***************************************************************************)
(* C15: an entry is dispatched on a tick only if the new-orders list is    *)
(* non-empty and last_margin - current equity is strictly greater than the *)
(* threshold of 500.                                                       *)
(***************************************************************************)
C15_EntryAboveThreshold ==
    [][(PollStep /\ last_tick'.kind = "entry")
       => (last_tick'.orders # <<>> /\ last_margin - master_equity > MIN_DELTA)]_vars

C17_InactiveIsNull ==
    ~STRATEGY_STATE.active
        => (~STRATEGY_STATE.frozen_ratio.some /\ ~STRATEGY_STATE.master_initial_margin.some)

(***************************************************************************)
(* C18: tick failure semantics: if the margins fetch or the positions      *)
(* fetch of a tick raises, the tick dispatches no entry and no exit, and   *)
(* last_margin, the instrument map and the strategy state are as before    *)
(* the tick.                                                               *)
(***************************************************************************)
C18_FailedTickIsSkipped ==
    [][(PollStep /\ last_tick'.fault \in {"margins", "positions"})
       => /\ last_tick'.kind \notin {"entry", "exit"}
          /\ UNCHANGED <<last_margin, instrument_map, STRATEGY_STATE>>]_vars

(***************************************************************************)
(* C19: in execute_entry and in execute_exit a failure while placing the   *)
(* orders of one child does not abort the others: every other child is     *)
(* placed exactly the orders it is placed without the failure, and the     *)
(* order log only grows by what was placed.                                *)
(***************************************************************************)
C19_SiblingsUnaffected ==
    [][(last_tick'.fault \in DOMAIN accounts)
       => /\ orders_log' = orders_log \o Docs(last_tick'.placed)
          /\ \A c \in (DOMAIN accounts) \ {last_tick'.fault} :
                PlacedFor(last_tick'.placed, c)
                  = IF last_tick'.kind = "entry"
                    THEN EntryPlacements(c, last_tick'.used[c],
                                         aggregate_orders(last_tick'.orders))
                    ELSE ExitPlacements(c, SimulatedPositions(orders_log, c),
                                        last_tick'.ratio,
                                        aggregate_orders(last_tick'.orders))]_vars

\* the orders of the second child failed; the first and the third child have theirs
C19_Witness ==
    /\ accounts = ChildAccounts
    /\ last_tick.kind = "entry"
    /\ last_tick.fault = "c2"
    /\ ChildQuantity(2 * LOT_SIZE, last_tick.used["c2"]) # 0
    /\ PlacedFor(last_tick.placed, "c2") = <<>>
    /\ \E p, q \in Placed : p.child = "c1" /\ q.child = "c3"

(***************************************************************************)
(* C20: durability: at every operation boundary of the running process the *)
(* persisted strategy state equals the strategy state in memory.           *)
(***************************************************************************)
C20_FileEqualsMemory ==
    pc = "running" => STRATEGY_STATE = state_file

(***************************************************************************)
(* C21: a failed write of the strategy state fails the operation: the      *)
(* strategy state in memory after the call is the one before the call.     *)
(***************************************************************************)
C21_FailedSaveUndoesMutation ==
    [][last_tick'.save_failed => STRATEGY_STATE' = STRATEGY_STATE]_vars

(***************************************************************************)
(* C22: seen_order_ids is bounded: it never holds more ids than the limit  *)
(* (SeenLimit of the MaxOrders ids of the model stands for the              *)
(* specification's 2000).                                                  *)
(***************************************************************************)
SeenLimit == MaxOrders - 1

C22_SeenIdsBounded == Cardinality(seen_order_ids) <= SeenLimit

C24_RetriesUntilConnected == <>[]master_connected => <>(pc = "running")

(***************************************************************************)
(* C25: on a completed tick with new orders on which the master's equity   *)
(* rose and the master is not flat, execute_exit is dispatched with        *)
(* min(1, released / M), M being the tracked margin summed over the        *)
(* instrument tokens of the new orders (when M is positive).               *)
(***************************************************************************)
TokensOf(orders) == {orders[i].instrument_token : i \in 1..Len(orders)}

\* the tracked margin of a set of instrument tokens
RECURSIVE TrackedMargin(_, _)
TrackedMargin(map, tokens) ==
    IF tokens = {} THEN RZero
    ELSE LET t == CHOOSE x \in tokens : TRUE
         IN  RAdd(map[t], TrackedMargin(map, tokens \ {t}))

C25_ExitRatioOfTrackedMargin ==
    [][(/\ PollStep
        /\ TickCompleted'
        /\ last_tick'.orders # <<>>
        /\ master_equity > last_margin
        /\ ~IsFlat(master_positions)
        /\ RLess(RZero, TrackedMargin(instrument_map, TokensOf(last_tick'.orders))))
       => /\ last_tick'.kind = "exit"
          /\ last_tick'.ratio
               = ClampRatio(RDiv(Rat(master_equity - last_margin),
                                 TrackedMargin(instrument_map,
                                               TokensOf(last_tick'.orders))))]_vars

C27_CapLimit ==
    (last_tick.kind = "entry" /\ ~last_tick.was_active /\ STRATEGY_STATE.active)
    => \A c \in DOMAIN accounts :
          LET equity == accounts[c].capital
              cap == accounts[c].max_capital_usage
              limited == IF cap > 0 /\ cap < equity THEN cap ELSE equity
              r == Norm(limited, STRATEGY_STATE.master_initial_margin.val)
              want == IF RLess(ROne, r) THEN ROne ELSE r
          IN  /\ last_tick.used[c] = want
              /\ STRATEGY_STATE.frozen_ratio.val[c] = want

\* the capped child entered with half the master's quantity although its equity
\* is twice the master's margin
C27_Witness ==
    /\ accounts = ChildAccounts
    /\ last_tick.kind = "entry"
    /\ ~last_tick.was_active
    /\ STRATEGY_STATE.active
    /\ STRATEGY_STATE.master_initial_margin.val = 2000
    /\ last_tick.used["c1"] = ROne
    /\ last_tick.used["c3"] = <<1, 2>>
    /\ \E p \in Placed : p.child = "c3" /\ p.qty = LOT_SIZE /\ p.ref = 2 * LOT_SIZE

(***************************************************************************)
(* C28: for each child and each aggregated master order of an entry, the   *)
(* child quantity is floor(masterQty / lot) * lot * r rounded down to a    *)
(* multiple of lot, lot being the lot size of the order's symbol (the      *)
(* configured lot size for an index symbol, 1 for an equity); the order is *)
(* placed with that quantity, and skipped when it is 0.                    *)
(***************************************************************************)
IndexTokens == {"T1"}
LotSizeOf(token) == IF token \in IndexTokens THEN LOT_SIZE ELSE 1

C28_LotBySymbol ==
    (last_tick.kind = "entry" /\ last_tick.fault = "none")
    => \A c \in DOMAIN accounts :
         LET agg == aggregate_orders(last_tick.orders)
         IN  \A i \in 1..Len(agg) :
               LET lot == LotSizeOf(agg[i].instrument_token)
                   whole == (agg[i].quantity \div lot) * lot
                   want == RFloor(RDiv(RMul(Rat(whole), last_tick.used[c]), Rat(lot))) * lot
                   got == {p \in Placed : /\ p.child = c
                                          /\ p.token = agg[i].instrument_token
                                          /\ p.txn = agg[i].transaction_type
                                          /\ p.product = agg[i].product}
               IN  IF want = 0 THEN got = {}
                   ELSE \E p \in got : p.qty = want

(***************************************************************************)
(* C29: execute_entry dispatched while the strategy is inactive ends with  *)
(* the strategy active and persisted, and every child handled in the call  *)
(* was given a ratio computed in that call.                                *)
(***************************************************************************)
C29_EntryActivatesAndPersists ==
    [][(PollStep /\ last_tick'.kind = "entry" /\ ~STRATEGY_STATE.active)
       => /\ STRATEGY_STATE'.active
          /\ state_file' = STRATEGY_STATE'
          /\ \A c \in DOMAIN accounts :
                last_tick'.used[c]
                  = ComputeRatio(ChildBalance(accounts[c]),
                                 STRATEGY_STATE'.master_initial_margin.val)]_vars

(***************************************************************************)
(* C30: a tick that finds the orchestrator not initialised only hydrates   *)
(* the baseline and returns: it dispatches no entry and no exit and places *)
(* nothing, whatever its new orders are.                                   *)
(***************************************************************************)
C30_FirstTickOnlyHydrates ==
    [][(PollStep /\ ~initialized /\ last_tick'.kind \notin {"waiting", "poll_error"})
       => /\ last_tick'.kind = "hydrate"
          /\ initialized'
          /\ last_margin' = master_equity
          /\ master_capital' = master_equity
          /\ last_tick'.placed = <<>>
          /\ UNCHANGED <<instrument_map, STRATEGY_STATE, files>>]_vars

\* the tick that hydrated had a new order, and nothing was placed for it
C30_Witness ==
    /\ initialized
    /\ last_tick.kind = "hydrate"
    /\ last_tick.orders # <<>>
    /\ orders_log = <<>>
    /\ last_margin = master_equity

(***************************************************************************)
(* C31: at the end of every tick that completes without error, last_margin *)
(* equals the master equity sampled in that tick, whichever branch was     *)
(* taken.                                                                  *)
(***************************************************************************)
C31_BaselineFollowsEquity ==
    [][(PollStep /\ TickCompleted') => last_margin' = master_equity]_vars

\* an entry tick has moved the baseline below the capital sampled at the start
C31_Witness ==
    /\ pc = "running"
    /\ last_tick.kind = "entry"
    /\ last_tick.placed # <<>>
    /\ last_margin = master_equity
    /\ last_margin < master_capital

(***************************************************************************)
(* C32: in every poll iteration in which the master is connected and the   *)
(* fetch of the orders succeeds, the orchestrator tick is invoked exactly  *)
(* once, with exactly the orders that are COMPLETE and not yet in          *)
(* seen_order_ids, in the broker's order; it is invoked also when that     *)
(* list is empty.                                                          *)
(***************************************************************************)
C32_TickGetsNewCompleteOrders ==
    [][(PollStep /\ master_connected /\ last_tick' # last_tick
          /\ last_tick'.fault # "orders")
       => LET Fresh(o) == o.status = "COMPLETE" /\ o.order_id \notin seen_order_ids
              fresh == SelectSeq(broker_orders, Fresh)
          IN  /\ last_tick'.kind \in {"no_orders", "no_event", "entry", "exit",
                                      "tick_failed"}
              /\ last_tick'.orders = fresh
              /\ fresh = <<>> => last_tick'.kind \in {"no_orders", "tick_failed"}
              /\ pass_count' = Bump(pass_count, Ids(fresh))]_vars

\* the tick was invoked with an empty list while the broker's only orders are
\* rejected ones
C32_Witness ==
    /\ pc = "running"
    /\ last_tick.kind = "no_orders"
    /\ last_tick.orders = <<>>
    /\ broker_orders # <<>>
    /\ \A i \in 1..Len(broker_orders) : broker_orders[i].status = "REJECTED"
    /\ seen_order_ids = {}

(***************************************************************************)
(* C33: strategy-state mutations are serialised against concurrent         *)
(* administrative calls: when an execute_entry of a /replicate request     *)
(* overlaps an entry of the poller, at most one of the two performs the    *)
(* first-entry activation.                                                 *)
(***************************************************************************)
C33_OneFirstEntryActivation == Cardinality(first_entries) <= 1

(***************************************************************************)
(* C34: writes of the strategy state are atomic: when the process dies,    *)
(* the file holds either the complete state it held before or the complete *)
(* state that was being written.                                           *)
(***************************************************************************)
C34_AtomicStateWrite ==
    [][(pc = "running" /\ pc' = "down")
       => state_file' \in {state_file,
                           process_tick(NewOrders(broker_orders, seen_order_ids),
                                        "none").st}]_vars

(***************************************************************************)
(* C35: within one execute_exit call, the total quantity exited on a child *)
(* for an instrument token never exceeds the child's open quantity |q| at  *)
(* the start of the call, also when several exit orders reference the      *)
(* token.                                                                  *)
(***************************************************************************)
\* the summed quantity of the placements of a list on child c for token t
RECURSIVE PlacedQty(_, _, _)
PlacedQty(placed, c, t) ==
    IF placed = <<>> THEN 0
    ELSE (IF Head(placed).child = c /\ Head(placed).token = t THEN Head(placed).qty ELSE 0)
         + PlacedQty(Tail(placed), c, t)

C35_ExitWithinOpenQuantity ==
    [][last_tick'.kind = "exit"
       => \A c \in DOMAIN accounts : \A t \in Tokens :
             PlacedQty(last_tick'.placed, c, t)
               <= Abs(SimulatedPositions(orders_log, c)[t])]_vars

\* two exit orders of one call hit the same position: the second was sized on
\* what the first left
C35_Witness ==
    /\ last_tick.kind = "exit"
    /\ \E i, j \in 1..Len(last_tick.placed) :
          /\ i < j
          /\ last_tick.placed[i].child = last_tick.placed[j].child
          /\ last_tick.placed[i].token = last_tick.placed[j].token
          /\ last_tick.placed[j].ref = last_tick.placed[i].ref - last_tick.placed[i].qty
          /\ last_tick.placed[j].ref > 0

(***************************************************************************)
(* C36: no master order is lost to a failed tick: the orders of a tick     *)
(* that failed are presented to the orchestrator again, so after a failed  *)
(* tick its orders are still new to the poller (none of them is in         *)
(* seen_order_ids).                                                        *)
(***************************************************************************)
C36_FailedTickOrdersStayNew ==
    (pc = "running" /\ last_tick.kind = "tick_failed")
    => last_tick.new_ids \cap seen_order_ids = {}

(***************************************************************************)
(* C37: in dry-run mode, over any sequence of entries and exits, the       *)
(* cumulative exit quantity placed for a child on an instrument never      *)
(* exceeds the cumulative entry quantity placed for that child on that     *)
(* instrument.  (The direct calls trade one instrument, so the totals of a *)
(* child in db.orders are the totals of that instrument.)                  *)
(***************************************************************************)
\* the summed magnitude of the documents of one type recorded for child c
RECURSIVE RecordedQty(_, _, _)
RecordedQty(log, c, type) ==
    IF log = <<>> THEN 0
    ELSE (IF Head(log).child_id = c /\ Head(log).type = type
          THEN Abs(Head(log).qty) ELSE 0)
         + RecordedQty(Tail(log), c, type)

C37_ExitsWithinEntries ==
    \A c \in ChildIds :
       RecordedQty(orders_log, c, "exit") <= RecordedQty(orders_log, c, "entry")

(***************************************************************************)
(* C38: every order that execute_exit places on a child reduces the        *)
(* magnitude of the child's position in that instrument: a SELL is placed  *)
(* only against a long position and a BUY only against a short one.        *)
(***************************************************************************)
C38_ExitReducesPosition ==
    last_tick.kind = "exit"
    => \A p \in Placed : \/ p.txn = "SELL" /\ p.ref > 0
                         \/ p.txn = "BUY" /\ p.ref < 0

(***************************************************************************)
(* C39: execute_entry is never dispatched on a tick on which the master is *)
(* flat (zero net quantity in every instrument).                           *)
(***************************************************************************)
C39_NoEntryWhenFlat ==
    [][(PollStep /\ last_tick'.kind = "entry") => ~IsFlat(master_positions)]_vars

(***************************************************************************)
(* C40: whenever the strategy is active, the stored master_initial_margin  *)
(* is a positive number (never 0 and never null).                          *)
(***************************************************************************)
C40_ActiveMarginPositive ==
    STRATEGY_STATE.active
    => /\ STRATEGY_STATE.master_initial_margin.some
       /\ STRATEGY_STATE.master_initial_margin.val > 0

====
